---- MODULE Spec2Model ----
(***************************************************************************)
(* State-machine model of engine.py: train_step (one optimisation pass),   *)
(* test_step (one evaluation pass) and train (the epoch driver).           *)
(*                                                                         *)
(* Every statement of the three functions that changes state is one        *)
(* action.  The torch objects the engine drives are modelled by what the   *)
(* engine can observe of them:                                             *)
(*   model      params (the number of updates its parameters have had),   *)
(*              mode ("train" / "eval"), device, grads                     *)
(*   optimizer  steps (its step counter)                                   *)
(*   schedular  steps (its step counter), or absent                        *)
(*   DataLoader [n, last]: n batches of BatchSize samples, the last batch  *)
(*              holding `last` samples; len(loader) = n                    *)
(* Floats are modelled as exact rationals <<numerator, denominator>>.      *)
(***************************************************************************)
EXTENDS Integers, Sequences, FiniteSets, TLC

\* ------------------------------------------------------------- bounds
MaxEpochs == 2
MaxBatches == 2
BatchSize == 2
MaxCalls == 2

\* ------------------------------------------------------------- rationals
Abs(a) == IF a < 0 THEN -a ELSE a

RECURSIVE GCD(_, _)
GCD(a, b) == IF b = 0 THEN a ELSE GCD(b, a % b)

\* the rational n/d in lowest terms (d > 0)
Rat(n, d) ==
    LET g == GCD(Abs(n), d)
    IN  IF g = 0 THEN <<0, 1>> ELSE <<n \div g, d \div g>>

RAdd(a, b) == Rat(a[1] * b[2] + b[1] * a[2], a[2] * b[2])

\* a / k for an integer k > 0
RDiv(a, k) == Rat(a[1], a[2] * k)

RZero == <<0, 1>>

RECURSIVE RSum(_)
RSum(s) == IF s = <<>> THEN RZero ELSE RAdd(Head(s), RSum(Tail(s)))

\* ------------------------------------------------------------- collaborators
\* a DataLoader: number of batches and the size of its last batch
Loaders ==
    {[n |-> 0, last |-> BatchSize]}
        \cup [n : 1..MaxBatches, last : 1..BatchSize]

\* len(y) of batch i
BatchLen(loader, i) == IF i = loader.n - 1 THEN loader.last ELSE BatchSize

\* the noise a forward pass may draw: dropout and batch statistics are active
\* in training mode only
Noise(mode) == IF mode = "train" THEN {0, 1} ELSE {0}

\* model(x): the logits of batch i under the parameters p; the noise of a
\* training-mode pass perturbs the scores without changing their argmax
Model(p, i, noise) == [score |-> p + i, jitter |-> noise]

\* loss_fn(y_logits, y): a non-negative scalar
LossFn(y_logits, i) == 2 * (i + 1) + ((y_logits.score - i + y_logits.jitter) % 2)

\* torch.eq(y, argmax(softmax(y_logits))).sum().item(): correct predictions
Correct(y_logits, size) == y_logits.score % (size + 1)

NoLogits == [score |-> 0, jitter |-> 0]

VARIABLES
    inp,    \* the arguments of the call in progress
    call,   \* the top-level function in progress, "none" between calls
    calls,  \* completed top-level calls
    drv,    \* the frame of train()
    stp,    \* the frame of train_step() / test_step()
    mdl,    \* the model, the optimizer and the schedule hook
    hist    \* history: what the passes have done

vars == <<inp, call, calls, drv, stp, mdl, hist>>

NoFrame ==
    [pc |-> "none", kind |-> "none", schedular |-> FALSE, loader |-> [n |-> 0, last |-> BatchSize],
     i |-> 0, size |-> 0, y_logits |-> NoLogits, loss |-> 0, acc |-> RZero,
     sum_loss |-> 0, sum_acc |-> RZero, ret |-> <<RZero, RZero>>,
     opt0 |-> 0, sched0 |-> 0, params0 |-> 0, losses |-> <<>>, accs |-> <<>>]

\* the frame of a step function at entry: lines 36 and 81
NewFrame(kind, loader, schedular) ==
    [NoFrame EXCEPT !.pc = "to_device", !.kind = kind, !.loader = loader,
                    !.schedular = schedular,
                    !.opt0 = mdl.optSteps, !.sched0 = mdl.schedSteps,
                    !.params0 = mdl.params]

EmptyResult ==
    [train_loss |-> <<>>, train_acc |-> <<>>, test_loss |-> <<>>, test_acc |-> <<>>]

NoDriver ==
    [pc |-> "none", epoch |-> 0, result |-> EmptyResult,
     train_loss |-> RZero, train_acc |-> RZero, test_loss |-> RZero, test_acc |-> RZero,
     printed |-> 0, opt0 |-> 0, sched0 |-> 0, trainCalls |-> 0, testCalls |-> 0]

NoHist ==
    [error |-> "none", fwdKind |-> "none", fwdMode |-> "none", used |-> {},
     usedFor |-> 0,
     prevEval |-> <<>>]

\* the arguments of a call; those the called function does not take stay at
\* these values (schedular=None and epochs are the defaults of lines 15, 107, 108)
NoArgs ==
    [epochs |-> 0, trainloader |-> [n |-> 0, last |-> BatchSize],
     testloader |-> [n |-> 0, last |-> BatchSize], schedular |-> FALSE]

Init ==
    /\ inp = NoArgs
    /\ call = "none"
    /\ calls = 0
    /\ drv = NoDriver
    /\ stp = NoFrame
    /\ \E m \in {"train", "eval"} :
          mdl = [params |-> 0, mode |-> m, device |-> "unset", grads |-> {},
                 optSteps |-> 0, schedSteps |-> 0]
    /\ hist = NoHist

\* ------------------------------------------------------------- torch calls
\* model.to(device)
model_to(m) == [m EXCEPT !.device = "device"]

\* the pass never calls model.train(): the mode is left as it was found
model_train_missing(m) == m

\* model.train()
model_train(m) == [m EXCEPT !.mode = "train"]

\* the pass never calls model.eval(): the mode is left as it was found
model_eval_missing(m) == m

\* model.eval()
model_eval(m) == [m EXCEPT !.mode = "eval"]

\* the pass never calls optimizer.zero_grad(): .grad keeps what it held
zero_grad_missing(m) == m

\* optimizer.zero_grad(): the gradients of every parameter are dropped
zero_grad(m) == [m EXCEPT !.grads = {}]

\* loss.backward(): the gradients of batch b are added to what .grad holds
backward(m, b) == [m EXCEPT !.grads = @ \cup {b}]

\* the pass never calls optimizer.step()
optimizer_step_missing(m) == m

\* optimizer.step(): one update of the parameters from the gradients
optimizer_step(m) ==
    [m EXCEPT !.optSteps = @ + 1,
              !.params = IF m.grads = {} THEN @ ELSE @ + 1]

\* schedular.step()
schedular_step(m) == [m EXCEPT !.schedSteps = @ + 1]

\* the tag of the batch the running pass is at
BatchTag(f) == f.opt0 + f.i

\* ------------------------------------------------------------- failures
\* an exception leaves the step function and, uncaught, train()
Raise(err) ==
    /\ stp' = [stp EXCEPT !.pc = "raised"]
    /\ drv' = IF call = "train" THEN [drv EXCEPT !.pc = "aborted"] ELSE drv
    /\ call' = "none"
    /\ calls' = calls + 1
    /\ hist' = [hist EXCEPT !.error = err]

InStep(kind, pc) == stp.kind = kind /\ stp.pc = pc

\* ------------------------------------------------------------- train_step
\* line 37
train_step_to_device ==
    /\ InStep("train", "to_device")
    /\ mdl' = model_to(mdl)
    /\ stp' = [stp EXCEPT !.pc = "iter"]
    /\ UNCHANGED <<inp, call, calls, drv, hist>>

\* line 37, the device cannot be used
train_step_device_unavailable ==
    /\ InStep("train", "to_device")
    /\ Raise("DeviceUnavailable")
    /\ UNCHANGED <<inp, mdl>>

\* lines 38-39: the next batch, or the end of the loop
train_step_iter ==
    /\ InStep("train", "iter")
    /\ stp' = IF stp.i < stp.loader.n
                 THEN [stp EXCEPT !.pc = "set_mode", !.size = BatchLen(stp.loader, stp.i)]
                 ELSE [stp EXCEPT !.pc = "divide"]
    /\ UNCHANGED <<inp, call, calls, drv, mdl, hist>>

\* line 40
train_step_set_mode ==
    /\ InStep("train", "set_mode")
    /\ mdl' = model_train(mdl)
    /\ stp' = [stp EXCEPT !.pc = "forward"]
    /\ UNCHANGED <<inp, call, calls, drv, hist>>

\* line 41
train_step_forward ==
    /\ InStep("train", "forward")
    /\ \E noise \in Noise(mdl.mode) :
          stp' = [stp EXCEPT !.pc = "loss", !.y_logits = Model(mdl.params, stp.i, noise)]
    /\ hist' = [hist EXCEPT !.fwdKind = "train", !.fwdMode = mdl.mode]
    /\ UNCHANGED <<inp, call, calls, drv, mdl>>

\* line 41, the batch does not fit the model
train_step_forward_raises ==
    /\ InStep("train", "forward")
    /\ Raise("ShapeOrTypeMismatch")
    /\ UNCHANGED <<inp, mdl>>

\* line 42
train_step_loss ==
    /\ InStep("train", "loss")
    /\ stp' = [stp EXCEPT !.pc = "zero_grad", !.loss = LossFn(stp.y_logits, stp.i)]
    /\ UNCHANGED <<inp, call, calls, drv, mdl, hist>>

\* line 44
train_step_zero_grad ==
    /\ InStep("train", "zero_grad")
    /\ mdl' = zero_grad(mdl)
    /\ stp' = [stp EXCEPT !.pc = "backward"]
    /\ UNCHANGED <<inp, call, calls, drv, hist>>

\* line 45
train_step_backward ==
    /\ InStep("train", "backward")
    /\ mdl' = backward(mdl, BatchTag(stp))
    /\ stp' = [stp EXCEPT !.pc = "opt_step"]
    /\ UNCHANGED <<inp, call, calls, drv, hist>>

\* line 46
train_step_optimizer_step ==
    /\ InStep("train", "opt_step")
    /\ mdl' = optimizer_step(mdl)
    /\ hist' = [hist EXCEPT !.used = mdl.grads, !.usedFor = BatchTag(stp)]
    /\ stp' = [stp EXCEPT !.pc = "sched"]
    /\ UNCHANGED <<inp, call, calls, drv>>

\* lines 47-48
train_step_schedular ==
    /\ InStep("train", "sched")
    /\ mdl' = IF stp.schedular THEN schedular_step(mdl) ELSE mdl
    /\ stp' = [stp EXCEPT !.pc = "metrics"]
    /\ UNCHANGED <<inp, call, calls, drv, hist>>

\* lines 50-51 and 90-91: acc = correct predictions / len(y)
BatchAcc(y_logits, size) == Rat(Correct(y_logits, size), size)

\* lines 50-51
train_step_metrics ==
    /\ InStep("train", "metrics")
    /\ stp' = [stp EXCEPT !.pc = "accumulate", !.acc = BatchAcc(stp.y_logits, stp.size)]
    /\ UNCHANGED <<inp, call, calls, drv, mdl, hist>>

\* lines 53-54 and 93-94: the running sums, then the loop's next index
Accumulate(f) ==
    [f EXCEPT !.pc = "iter",
              !.sum_loss = @ + f.loss,
              !.sum_acc = RAdd(@, f.acc),
              !.losses = Append(@, f.loss),
              !.accs = Append(@, f.acc),
              !.i = @ + 1]

\* lines 53-54
train_step_accumulate ==
    /\ InStep("train", "accumulate")
    /\ stp' = Accumulate(stp)
    /\ UNCHANGED <<inp, call, calls, drv, mdl, hist>>

\* both sums over len(loader.dataset), the number of samples
Average_PerSample(f) ==
    LET samples == (f.loader.n - 1) * BatchSize + f.loader.last
    IN  <<Rat(f.sum_loss, samples), RDiv(f.sum_acc, samples)>>

\* lines 56-57 and 96-97: both sums over len(loader)
Average(f) == <<Rat(f.sum_loss, f.loader.n), RDiv(f.sum_acc, f.loader.n)>>

\* lines 56-57, len(trainloader) > 0
train_step_divide ==
    /\ InStep("train", "divide")
    /\ stp.loader.n > 0
    /\ stp' = [stp EXCEPT !.pc = "return", !.ret = Average(stp)]
    /\ UNCHANGED <<inp, call, calls, drv, mdl, hist>>

\* line 56, len(trainloader) = 0: 0 / 0 on Python ints
train_step_divide_by_zero ==
    /\ InStep("train", "divide")
    /\ stp.loader.n = 0
    /\ Raise("ZeroDivisionError")
    /\ UNCHANGED <<inp, mdl>>

\* ------------------------------------------------------------- test_step
\* line 82
test_step_to_device ==
    /\ InStep("test", "to_device")
    /\ mdl' = model_to(mdl)
    /\ stp' = [stp EXCEPT !.pc = "iter"]
    /\ UNCHANGED <<inp, call, calls, drv, hist>>

\* line 82, the device cannot be used
test_step_device_unavailable ==
    /\ InStep("test", "to_device")
    /\ Raise("DeviceUnavailable")
    /\ UNCHANGED <<inp, mdl>>

\* lines 83-84
test_step_iter ==
    /\ InStep("test", "iter")
    /\ stp' = IF stp.i < stp.loader.n
                 THEN [stp EXCEPT !.pc = "set_mode", !.size = BatchLen(stp.loader, stp.i)]
                 ELSE [stp EXCEPT !.pc = "divide"]
    /\ UNCHANGED <<inp, call, calls, drv, mdl, hist>>

\* line 85
test_step_set_mode ==
    /\ InStep("test", "set_mode")
    /\ mdl' = model_eval(mdl)
    /\ stp' = [stp EXCEPT !.pc = "forward"]
    /\ UNCHANGED <<inp, call, calls, drv, hist>>

\* lines 86-87: the forward pass under inference_mode
test_step_forward ==
    /\ InStep("test", "forward")
    /\ \E noise \in Noise(mdl.mode) :
          stp' = [stp EXCEPT !.pc = "loss", !.y_logits = Model(mdl.params, stp.i, noise)]
    /\ hist' = [hist EXCEPT !.fwdKind = "test", !.fwdMode = mdl.mode]
    /\ UNCHANGED <<inp, call, calls, drv, mdl>>

\* line 87, the batch does not fit the model
test_step_forward_raises ==
    /\ InStep("test", "forward")
    /\ Raise("ShapeOrTypeMismatch")
    /\ UNCHANGED <<inp, mdl>>

\* line 88
test_step_loss ==
    /\ InStep("test", "loss")
    /\ stp' = [stp EXCEPT !.pc = "metrics", !.loss = LossFn(stp.y_logits, stp.i)]
    /\ UNCHANGED <<inp, call, calls, drv, mdl, hist>>

\* lines 90-91
test_step_metrics ==
    /\ InStep("test", "metrics")
    /\ stp' = [stp EXCEPT !.pc = "accumulate", !.acc = BatchAcc(stp.y_logits, stp.size)]
    /\ UNCHANGED <<inp, call, calls, drv, mdl, hist>>

\* lines 93-94
test_step_accumulate ==
    /\ InStep("test", "accumulate")
    /\ stp' = Accumulate(stp)
    /\ UNCHANGED <<inp, call, calls, drv, mdl, hist>>

\* lines 96-97, len(testloader) > 0
test_step_divide ==
    /\ InStep("test", "divide")
    /\ stp.loader.n > 0
    /\ stp' = [stp EXCEPT !.pc = "return", !.ret = Average(stp)]
    /\ UNCHANGED <<inp, call, calls, drv, mdl, hist>>

\* line 96, len(testloader) = 0
test_step_divide_by_zero ==
    /\ InStep("test", "divide")
    /\ stp.loader.n = 0
    /\ Raise("ZeroDivisionError")
    /\ UNCHANGED <<inp, mdl>>

\* ------------------------------------------------------------- train
\* lines 147-151: the arguments train() gives train_step(); schedular is not
\* among them, so train_step() runs with its default, None
train_step_kwargs == [trainloader |-> inp.trainloader, schedular |-> FALSE]

\* lines 153-156: the arguments train() gives test_step()
test_step_kwargs == [testloader |-> inp.testloader]

\* the test loss appended to the train_loss list
Record_Misfiled(result, d) ==
    [train_loss |-> Append(Append(result.train_loss, d.train_loss), d.test_loss),
     train_acc |-> Append(result.train_acc, d.train_acc),
     test_loss |-> result.test_loss,
     test_acc |-> Append(result.test_acc, d.test_acc)]

\* lines 160-163: one entry appended to each of the four lists
Record(result, d) ==
    [train_loss |-> Append(result.train_loss, d.train_loss),
     train_acc |-> Append(result.train_acc, d.train_acc),
     test_loss |-> Append(result.test_loss, d.test_loss),
     test_acc |-> Append(result.test_acc, d.test_acc)]

\* range(epochs + 1)
MoreEpochs_Inclusive(d) == d.epoch <= inp.epochs

\* line 146: range(epochs) has another epoch to give
MoreEpochs(d) == d.epoch < inp.epochs

\* the training metrics appended as soon as train_step() has returned
train_step_returned_recording(d, ret) ==
    [d EXCEPT !.pc = "test_step", !.testCalls = @ + 1,
              !.train_loss = ret[1], !.train_acc = ret[2],
              !.result.train_loss = Append(@, ret[1]),
              !.result.train_acc = Append(@, ret[2])]

\* line 147: train_step()'s pair is bound to train_loss, train_acc; test_step()
\* is called next
train_step_returned(d, ret) ==
    [d EXCEPT !.pc = "test_step", !.testCalls = @ + 1,
              !.train_loss = ret[1], !.train_acc = ret[2]]

\* line 153: test_step()'s pair is bound to test_loss, test_acc
test_step_returned(d, ret) ==
    [d EXCEPT !.pc = "print", !.test_loss = ret[1], !.test_acc = ret[2]]

\* lines 146-151: the loop's next epoch begins with the call of train_step()
train_for ==
    /\ call = "train"
    /\ drv.pc = "for"
    /\ MoreEpochs(drv)
    /\ drv' = [drv EXCEPT !.pc = "train_step", !.trainCalls = @ + 1]
    /\ stp' = NewFrame("train", train_step_kwargs.trainloader, train_step_kwargs.schedular)
    /\ hist' = [hist EXCEPT !.prevEval = <<>>]
    /\ UNCHANGED <<inp, call, calls, mdl>>

\* lines 146 and 165: range(epochs) is exhausted, result is returned
train_return ==
    /\ call = "train"
    /\ drv.pc = "for"
    /\ ~MoreEpochs(drv)
    /\ drv' = [drv EXCEPT !.pc = "done"]
    /\ call' = "none"
    /\ calls' = calls + 1
    /\ UNCHANGED <<inp, stp, mdl, hist>>

\* lines 147 and 153: train_step() has returned, test_step() is called
train_test_step ==
    /\ call = "train"
    /\ drv.pc = "train_step"
    /\ InStep("train", "return")
    /\ drv' = train_step_returned(drv, stp.ret)
    /\ stp' = NewFrame("test", test_step_kwargs.testloader, FALSE)
    /\ UNCHANGED <<inp, call, calls, mdl, hist>>

\* line 153: test_step() has returned
train_tested ==
    /\ call = "train"
    /\ drv.pc = "test_step"
    /\ InStep("test", "return")
    /\ drv' = test_step_returned(drv, stp.ret)
    /\ stp' = [stp EXCEPT !.pc = "returned"]
    /\ hist' = [hist EXCEPT !.prevEval = <<[loader |-> stp.loader, ret |-> stp.ret]>>]
    /\ UNCHANGED <<inp, call, calls, mdl>>

\* line 158: the progress line, with the 1-based epoch number
train_print ==
    /\ call = "train"
    /\ drv.pc = "print"
    /\ drv' = [drv EXCEPT !.pc = "record", !.printed = drv.epoch + 1]
    /\ UNCHANGED <<inp, call, calls, stp, mdl, hist>>

\* lines 160-163, then the loop's next index
train_record ==
    /\ call = "train"
    /\ drv.pc = "record"
    /\ drv' = [drv EXCEPT !.pc = "for", !.result = Record(drv.result, drv),
                          !.epoch = @ + 1]
    /\ UNCHANGED <<inp, call, calls, stp, mdl, hist>>

\* ------------------------------------------------------------- the caller
\* train(model, loss_fn, optimizer, trainloader, testloader, schedular, epochs):
\* line 141; the caller hands train() a model and an optimizer no step function
\* has yet worked on
call_train ==
    /\ call = "none"
    /\ calls = 0
    /\ call' = "train"
    /\ \E e \in 0..MaxEpochs, tr \in Loaders, te \in Loaders, s \in BOOLEAN :
          inp' = [epochs |-> e, trainloader |-> tr, testloader |-> te, schedular |-> s]
    /\ drv' = [NoDriver EXCEPT !.pc = "for", !.opt0 = mdl.optSteps,
                               !.sched0 = mdl.schedSteps]
    /\ stp' = NoFrame
    /\ hist' = [hist EXCEPT !.error = "none"]
    /\ UNCHANGED <<calls, mdl>>

\* train_step(model, loss_fn, optimizer, trainloader, schedular): line 36
call_train_step ==
    /\ call = "none"
    /\ calls < MaxCalls
    /\ call' = "train_step"
    /\ \E tr \in Loaders, s \in BOOLEAN :
          /\ inp' = [NoArgs EXCEPT !.trainloader = tr, !.schedular = s]
          /\ stp' = NewFrame("train", tr, s)
    /\ drv' = NoDriver
    /\ hist' = [hist EXCEPT !.error = "none", !.prevEval = <<>>]
    /\ UNCHANGED <<calls, mdl>>

\* test_step(model, loss_fn, testloader): line 81
call_test_step ==
    /\ call = "none"
    /\ calls < MaxCalls
    /\ call' = "test_step"
    /\ \E te \in Loaders :
          /\ inp' = [NoArgs EXCEPT !.testloader = te]
          /\ stp' = NewFrame("test", te, FALSE)
    /\ drv' = NoDriver
    /\ hist' = [hist EXCEPT !.error = "none"]
    /\ UNCHANGED <<calls, mdl>>

\* line 59: train_step() returns to the caller
train_step_return ==
    /\ call = "train_step"
    /\ InStep("train", "return")
    /\ call' = "none"
    /\ calls' = calls + 1
    /\ stp' = [stp EXCEPT !.pc = "returned"]
    /\ UNCHANGED <<inp, drv, mdl, hist>>

\* line 99: test_step() returns to the caller
test_step_return ==
    /\ call = "test_step"
    /\ InStep("test", "return")
    /\ call' = "none"
    /\ calls' = calls + 1
    /\ stp' = [stp EXCEPT !.pc = "returned"]
    /\ hist' = [hist EXCEPT !.prevEval = <<[loader |-> stp.loader, ret |-> stp.ret]>>]
    /\ UNCHANGED <<inp, drv, mdl>>

Next ==
    \/ call_train
    \/ call_train_step
    \/ call_test_step
    \/ train_for
    \/ train_return
    \/ train_test_step
    \/ train_tested
    \/ train_print
    \/ train_record
    \/ train_step_to_device
    \/ train_step_device_unavailable
    \/ train_step_iter
    \/ train_step_set_mode
    \/ train_step_forward
    \/ train_step_forward_raises
    \/ train_step_loss
    \/ train_step_zero_grad
    \/ train_step_backward
    \/ train_step_optimizer_step
    \/ train_step_schedular
    \/ train_step_metrics
    \/ train_step_accumulate
    \/ train_step_divide
    \/ train_step_divide_by_zero
    \/ train_step_return
    \/ test_step_to_device
    \/ test_step_device_unavailable
    \/ test_step_iter
    \/ test_step_set_mode
    \/ test_step_forward
    \/ test_step_forward_raises
    \/ test_step_loss
    \/ test_step_metrics
    \/ test_step_accumulate
    \/ test_step_divide
    \/ test_step_divide_by_zero
    \/ test_step_return

Spec == Init /\ [][Next]_vars

\* ------------------------------------------------------------- properties
RECURSIVE SumSeq(_)
SumSeq(q) == IF q = <<>> THEN 0 ELSE Head(q) + SumSeq(Tail(q))

ResultFields == {"train_loss", "train_acc", "test_loss", "test_acc"}

IsPrefix(a, b) == Len(a) <= Len(b) /\ SubSeq(b, 1, Len(a)) = a

\* train() is running or has just ended
InTrain == drv.pc # "none"

\* a pass of the given kind is between its first and its last statement
Running(kind) ==
    /\ stp.kind = kind
    /\ stp.pc \in {"to_device", "iter", "set_mode", "forward", "loss", "zero_grad",
                   "backward", "opt_step", "sched", "metrics", "accumulate", "divide"}

\* the statements of a training batch before / after the optimizer update
BeforeUpdate == {"set_mode", "forward", "loss", "zero_grad", "backward", "opt_step"}
AfterSchedule == {"metrics", "accumulate"}

\* C1: with a schedule hook supplied, the hook is advanced once per training
\* batch and never during an evaluation batch: a pass of train_step() over n
\* batches advances it n times, a run of train() over E epochs E*n times.
C1_ScheduleAdvancedPerTrainBatch ==
    /\ (drv.pc = "done" /\ inp.schedular)
          => mdl.schedSteps = drv.sched0 + inp.epochs * inp.trainloader.n
    /\ (InStep("train", "return") /\ inp.schedular)
          => mdl.schedSteps = stp.sched0 + stp.loader.n
    /\ stp.kind = "test" => mdl.schedSteps = stp.sched0

\* C2: a train source of zero batches is reported as EmptyBatchSource before
\* the averaging division: the division by a batch count of zero is never
\* reached and never fails (an unusable device is reported before any batch).
C2_EmptyTrainSourceReported ==
    (stp.kind = "train" /\ stp.loader.n = 0)
        => /\ stp.pc # "divide"
           /\ stp.pc = "raised" => hist.error \in {"EmptyBatchSource", "DeviceUnavailable"}

\* C3: the record starts empty, holds one entry per series per completed
\* epoch, and the record train() returns holds exactly `epochs` entries in
\* each of its four series (none for epochs = 0).
C3_ResultLengths ==
    InTrain =>
        /\ \A f \in ResultFields : Len(drv.result[f]) = drv.epoch
        /\ drv.epoch <= inp.epochs
        /\ drv.pc = "done" => \A f \in ResultFields : Len(drv.result[f]) = inp.epochs

C3_Witness ==
    /\ drv.pc = "done"
    /\ inp.epochs = MaxEpochs
    /\ inp.trainloader.n > 0 /\ inp.testloader.n > 0
    /\ \A f \in ResultFields : Len(drv.result[f]) = MaxEpochs

\* C4: a failure of train_step() or test_step() in epoch k ends the run at
\* once; the record then holds exactly k entries per series, nothing of the
\* failed epoch, and the entries of the earlier epochs are as they were.
C4_AbortState ==
    drv.pc = "aborted" =>
        /\ call = "none"
        /\ stp.pc = "raised"
        /\ hist.error # "none"
        /\ \A f \in ResultFields : Len(drv.result[f]) = drv.epoch

C4_AbortStep ==
    /\ (call = "train" /\ drv'.pc = "aborted")
          => drv'.result = drv.result /\ drv'.epoch = drv.epoch
    /\ (call = "train" /\ call' = "train")
          => \A f \in ResultFields : IsPrefix(drv.result[f], drv'.result[f])
    /\ drv.pc = "aborted" => (drv' = drv \/ drv'.pc = "none")

C4_AbortKeepsCompletedEpochs == [](C4_AbortState) /\ [][C4_AbortStep]_vars

C4_Witness ==
    /\ drv.pc = "aborted"
    /\ stp.kind = "test"
    /\ drv.epoch = 1
    /\ drv.trainCalls = 2
    /\ Len(drv.result.train_loss) = 1

\* C5: test_step() changes neither the parameters nor the optimizer's nor the
\* schedule hook's state; they change only at the optimizer update of a
\* training pass, so an evaluation that follows another on the same batch
\* source with no training between them returns the same metrics.
C5_EvalStep ==
    /\ Running("test")
          => /\ mdl'.params = mdl.params
             /\ mdl'.optSteps = mdl.optSteps
             /\ mdl'.schedSteps = mdl.schedSteps
             /\ mdl'.grads = mdl.grads
    /\ (mdl'.params # mdl.params \/ mdl'.optSteps # mdl.optSteps)
          => /\ InStep("train", "opt_step")
             /\ call = "train" => drv.pc = "train_step"

C5_SameMetrics ==
    (InStep("test", "return") /\ hist.prevEval # <<>>
        /\ hist.prevEval[1].loader = stp.loader)
        => stp.ret = hist.prevEval[1].ret

C5_EvaluationReadsOnly == [](C5_SameMetrics) /\ [][C5_EvalStep]_vars

C5_Witness ==
    /\ InStep("test", "return")
    /\ hist.prevEval # <<>>
    /\ hist.prevEval[1].loader = stp.loader
    /\ stp.loader.n = MaxBatches
    /\ mdl.params > 0
    /\ stp.ret = hist.prevEval[1].ret

\* C6: train() runs, for e = 0 .. epochs-1 in this order, train_step() once,
\* test_step() once, then the append of the epoch's metrics, and then ends;
\* test_step() starts only when train_step() has consumed its last batch, and
\* the epoch index never goes back.
DriverOrder ==
    {<<"for", "train_step">>, <<"train_step", "test_step">>, <<"test_step", "print">>,
     <<"print", "record">>, <<"record", "for">>, <<"for", "done">>,
     <<"train_step", "aborted">>, <<"test_step", "aborted">>}

C6_DriverState ==
    InTrain =>
        /\ drv.trainCalls =
              drv.epoch + (IF drv.pc \in {"train_step", "test_step", "print", "record",
                                          "aborted"}
                              THEN 1 ELSE 0)
        /\ drv.testCalls =
              drv.epoch + (IF drv.pc \in {"test_step", "print", "record"}
                                \/ (drv.pc = "aborted" /\ stp.kind = "test")
                              THEN 1 ELSE 0)
        /\ (drv.pc = "train_step" /\ call = "train") => stp.kind = "train"
        /\ (drv.pc = "test_step" /\ call = "train") => stp.kind = "test"
        /\ drv.pc = "done" => (drv.epoch = inp.epochs /\ drv.trainCalls = inp.epochs
                                  /\ drv.testCalls = inp.epochs)

C6_DriverStep ==
    call = "train" =>
        /\ drv'.pc # drv.pc => <<drv.pc, drv'.pc>> \in DriverOrder
        /\ drv'.epoch = IF drv.pc = "record" THEN drv.epoch + 1 ELSE drv.epoch
        /\ (drv.pc = "train_step" /\ drv'.pc = "test_step")
              => (InStep("train", "return") /\ stp.i = stp.loader.n
                    /\ Len(stp.losses) = stp.loader.n)
        /\ (drv.pc = "record")
              => \A f \in ResultFields : drv'.result[f] = Append(drv.result[f], drv[f])

C6_LinearEpochOrder == [](C6_DriverState) /\ [][C6_DriverStep]_vars

C6_Witness ==
    /\ drv.pc = "done"
    /\ inp.epochs = MaxEpochs
    /\ drv.trainCalls = MaxEpochs
    /\ drv.testCalls = MaxEpochs
    /\ inp.trainloader.n = MaxBatches

\* C7: train_step() applies one optimizer update per batch: in a pass the
\* step counter has grown by the number of batches processed, by n when the
\* pass returns and by E*n when train() returns; it never decreases and never
\* grows by more than one in a step.
C7_CounterState ==
    /\ (stp.kind = "train" /\ stp.pc \in BeforeUpdate \cup {"iter", "divide", "return"})
          => mdl.optSteps = stp.opt0 + stp.i
    /\ (stp.kind = "train" /\ stp.pc \in AfterSchedule \cup {"sched"})
          => mdl.optSteps = stp.opt0 + stp.i + 1
    /\ InStep("train", "return") => mdl.optSteps = stp.opt0 + stp.loader.n
    /\ drv.pc = "done" => mdl.optSteps = drv.opt0 + inp.epochs * inp.trainloader.n

C7_CounterStep == mdl'.optSteps \in {mdl.optSteps, mdl.optSteps + 1}

C7_OneUpdatePerBatch == [](C7_CounterState) /\ [][C7_CounterStep]_vars

C7_Witness ==
    /\ drv.pc = "done"
    /\ inp.epochs = MaxEpochs
    /\ inp.trainloader.n = MaxBatches
    /\ mdl.optSteps = MaxEpochs * MaxBatches

\* C8: for n >= 1 batches both step functions return (sum of the n batch
\* losses) / n and (sum of the n batch accuracies) / n, each batch counting
\* once whatever its size; batch losses 2 and 4 give the mean loss 3.
C8_UnweightedMean ==
    (stp.pc = "return" /\ stp.loader.n >= 1) =>
        LET n == stp.loader.n
            a == RSum(stp.accs)
        IN  /\ Len(stp.losses) = n /\ Len(stp.accs) = n
            /\ stp.ret[1][1] * n = SumSeq(stp.losses) * stp.ret[1][2]
            /\ stp.ret[2][1] * a[2] * n = a[1] * stp.ret[2][2]
            /\ stp.losses = <<2, 4>> => stp.ret[1] = <<3, 1>>

C8_Witness ==
    /\ InStep("test", "return")
    /\ stp.losses = <<2, 4>>
    /\ stp.ret[1] = <<3, 1>>
    /\ stp.loader.last < BatchSize
    /\ stp.accs[1] # stp.accs[2]

\* C9: a training batch runs forward, loss, zero_grad, backward, optimizer
\* step, schedule step, accumulation in this order: the update uses the
\* gradients of its own batch only, the update of batch i is done when the
\* schedule hook is advanced for batch i, and when batch i+1 begins.
C9_BatchOrder ==
    stp.kind = "train" =>
        /\ stp.pc \in BeforeUpdate
              => /\ mdl.optSteps = stp.opt0 + stp.i
                 /\ stp.schedular => mdl.schedSteps = stp.sched0 + stp.i
        /\ stp.pc = "backward" => mdl.grads = {}
        /\ stp.pc = "opt_step" => mdl.grads = {BatchTag(stp)}
        /\ stp.pc = "sched"
              => /\ mdl.optSteps = stp.opt0 + stp.i + 1
                 /\ stp.schedular => mdl.schedSteps = stp.sched0 + stp.i
                 /\ hist.used = {BatchTag(stp)}
        /\ stp.pc \in AfterSchedule
              => /\ mdl.optSteps = stp.opt0 + stp.i + 1
                 /\ stp.schedular => mdl.schedSteps = stp.sched0 + stp.i + 1
                 /\ hist.used = {hist.usedFor}

C9_Witness ==
    /\ InStep("train", "sched")
    /\ stp.schedular
    /\ stp.i = 1
    /\ hist.used = {BatchTag(stp)}
    /\ mdl.schedSteps = stp.sched0 + 1

\* C10: every forward pass of train_step() sees the model in training mode
\* and every forward pass of test_step() in evaluation mode, the first
\* training batch after an evaluation included.
C10_ForwardMode ==
    /\ InStep("train", "forward") => mdl.mode = "train"
    /\ InStep("test", "forward") => mdl.mode = "eval"
    /\ hist.fwdKind = "train" => hist.fwdMode = "train"
    /\ hist.fwdKind = "test" => hist.fwdMode = "eval"

C10_Witness ==
    /\ call = "train"
    /\ drv.epoch = 1
    /\ InStep("train", "loss")
    /\ stp.i = 0
    /\ hist.fwdKind = "train"
    /\ hist.fwdMode = "train"

====
